---- MODULE Spec2Model ----
(***************************************************************************)
(* Streaming session relay of the n8n dashboard backend:                   *)
(*   WebhookService (triggerAgent, createLogEntry, updateSessionStatus,     *)
(*   stopAgentRun) and SSEManager (subscribe, unsubscribe, broadcast,       *)
(*   sendEvent, connectToN8nStream with its onopen / onmessage / onerror    *)
(*   callbacks, stopN8nStream), both in src/unnamed/part_010, together with *)
(*   the slice of the log_sessions / log_entries tables they write.         *)
(* Node runs every callback to completion on one thread, so each handler is *)
(* one atomic action.                                                       *)
(***************************************************************************)
EXTENDS Integers, Sequences, FiniteSets, TLC

\* ---------------------------------------------------------------- bounds
MaxSessions == 2
MaxChannels == 2
MaxConns == 2
MaxEvents == 2
MaxStops == 2
MaxHeartbeats == 1

Sess == 1..MaxSessions
Chan == 1..MaxChannels
Conn == 1..MaxConns

\* ------------------------------------------------------- program constants
\* enum AgentStatus
AgentStatus == {"Idle", "Scheduled", "Running", "Completed", "Error", "Cancelled"}
\* enum LogType: Object.values(LogType)
LogType == {"Info", "Success", "Error", "Control"}

\* the one agent row of the agents table and its owner; ids 2 are unknown
Agents == {1}
AgentIds == {1, 2}
Users == {1, 2}
AgentOwner == 1

\* Raw upstream payloads (event.data), one or more per path of onmessage.
\* "json" payloads decode to an object with fields type and message;
\* "garbage" makes JSON.parse throw.
Raw(kind, type, message) == [kind |-> kind, type |-> type, message |-> message]
RawEvents ==
    { Raw("json", "Info", "text"),
      Raw("json", "Control", "COMPLETE"), Raw("json", "Control", "PING"),
      Raw("json", "control", "COMPLETE"), Raw("json", "control", "ERROR"),
      Raw("json", "control", "PING"),
      Raw("garbage", "-", "raw") }

VARIABLES
    status,          \* log_sessions.status per session id ("None": no row)
    completedAt,     \* log_sessions.completed_at is non-null
    statusWrites,    \* the UPDATEs of log_sessions.status that hit a row, in order
    logEntries,      \* log_entries rows per session, in insertion order
    agentStatus,     \* agents.status of the one agent
    agentLastRun,    \* agents.last_run_at is non-null
    connections,     \* SSEManager.connections : Map<sessionId, Set<Response>>
    n8nConnections,  \* SSEManager.n8nConnections : Map<sessionId, EventSource>
    es,              \* the EventSource objects created so far
    nextConn,        \* number of EventSource objects created
    nextSession,     \* number of log_sessions rows created
    emitted,         \* number of messages the upstream sources have sent so far
    chan,            \* per Response object: its life cycle and heartbeat timer
    received,        \* per Response object: the SSE events written to it
    broken,          \* Response objects whose write throws
    stops,           \* number of stopAgentRun calls so far
    triggerOutcome,  \* what the latest triggerAgent call gave its caller
    heartbeats,      \* number of heartbeat ticks so far
    expected         \* per Response object: the events routed for its session while
                     \* it was attached and writable (history, read by no action)

vars == <<status, completedAt, statusWrites, logEntries, agentStatus, agentLastRun,
          connections, n8nConnections, es, nextConn, nextSession, emitted, chan, received,
          broken, stops, triggerOutcome, heartbeats, expected>>

dbVars == <<status, completedAt, statusWrites, logEntries>>
agentVars == <<agentStatus, agentLastRun>>
upVars == <<n8nConnections, es, nextConn>>
subVars == <<connections, chan, broken, heartbeats>>

\* ------------------------------------------------------------ map helpers
\* Map.set(k, v)
MapSet(m, k, v) == [x \in (DOMAIN m) \cup {k} |-> IF x = k THEN v ELSE m[x]]
\* Map.delete(k)
MapDelete(m, k) == [x \in (DOMAIN m) \ {k} |-> m[x]]
\* new Map()
EmptyMap == [x \in {} |-> 0]

\* ------------------------------------------------------------- SSE events
\* what sendEvent writes: `event: <event>` and the JSON of the data object.
\* seq is the position, in the upstream's emission order, of the message the
\* data object came from (0: the relay made the object itself).
Ev(event, type, message, seq) ==
    [event |-> event, type |-> type, message |-> message, seq |-> seq]

ConnectedEvent == Ev("connected", "-", "Connected to log stream", 0)
HeartbeatEvent == Ev("heartbeat", "-", "timestamp", 0)
StreamOpenEvent == Ev("log", "Success", "Connected to agent workflow stream", 0)
LostConnectionEvent == Ev("log", "Error", "Lost connection to workflow", 0)
CompleteEvent == Ev("complete", "-", "Completed", 0)
WorkflowFailedEvent == Ev("error", "-", "Workflow failed", 0)
\* decode-failure event that leaves the payload out
ParseFailedEventWithoutPayload(raw, n) == Ev("log", "Error", "Failed to parse event", n)

\* message: `Failed to parse event: ${event.data}`
ParseFailedEvent(raw, n) == Ev("log", "Error", "Failed to parse event: " \o raw.message, n)
ForwardedEvent(raw, n) == Ev("log", raw.type, raw.message, n)

\* ------------------------------------------------------- session database
\* UPDATE log_sessions SET status = $1, completed_at = NOW() WHERE id = $2
UpdateSessionStatus(s, st) ==
    IF status[s] = "None"
    THEN UNCHANGED <<status, completedAt, statusWrites>>
    ELSE /\ status' = [status EXCEPT ![s] = st]
         /\ completedAt' = [completedAt EXCEPT ![s] = TRUE]
         /\ statusWrites' = [statusWrites EXCEPT ![s] = Append(@, st)]

\* INSERT INTO log_entries (session_id, log_type, message); session_id
\* references log_sessions(id), so the insert fails (and is swallowed) when
\* the session has no row.
CreateLogEntry(entries, s, logType, message) ==
    IF status[s] = "None" THEN entries
    ELSE [entries EXCEPT ![s] = Append(@, [logType |-> logType, message |-> message])]

\* -------------------------------------------------------- SSEManager core
\* sendEvent(res, eventType, data): res.write inside try/catch
SendEvent(rcv, c, ev) ==
    IF c \in broken \/ chan[c].state # "open" THEN rcv
    ELSE [rcv EXCEPT ![c] = Append(@, ev)]

\* broadcast that stops after the first client of the set
BroadcastFirstClientOnly(s, ev) ==
    IF s \notin DOMAIN connections \/ connections[s] = {}
    THEN received
    ELSE LET first == CHOOSE x \in connections[s] : \A y \in connections[s] : x <= y
         IN SendEvent(received, first, ev)

\* broadcast whose loop ends at the first client that cannot be written
BroadcastStoppingAtFailure(s, ev) ==
    IF s \notin DOMAIN connections \/ connections[s] = {}
    THEN received
    ELSE [c \in Chan |->
            IF c \in connections[s] /\ (\A b \in connections[s] \cap broken : c < b)
            THEN SendEvent(received, c, ev)[c] ELSE received[c]]

\* broadcast that writes to the clients of every session
BroadcastToEveryone(s, ev) ==
    [c \in Chan |-> SendEvent(received, c, ev)[c]]

\* broadcast(sessionId, eventType, data): received after the call
Broadcast(s, ev) ==
    IF s \notin DOMAIN connections \/ connections[s] = {}
    THEN received
    ELSE [c \in Chan |->
            IF c \in connections[s] THEN SendEvent(received, c, ev)[c] ELSE received[c]]

\* unsubscribe that keeps the session's entry when its last client leaves
UnsubscribeMapKeepingEmpty(s, c) ==
    IF s \in DOMAIN connections THEN MapSet(connections, s, connections[s] \ {c}) ELSE connections

\* unsubscribe that releases the session's entry whatever it holds
UnsubscribeMapDroppingEntry(s, c) ==
    IF s \in DOMAIN connections THEN MapDelete(connections, s) ELSE connections

\* what unsubscribe returns: `clients` is tested before it is used and
\* Set.delete / Map.delete do not throw
UnsubscribeResult(s, c) == "ok"

\* unsubscribe(sessionId, res): connections after the call
UnsubscribeMap(s, c) ==
    IF s \in DOMAIN connections
    THEN LET clients == connections[s] \ {c}
         IN IF clients = {} THEN MapDelete(connections, s)
            ELSE MapSet(connections, s, clients)
    ELSE connections

\* getActiveSessionCount()
GetActiveSessionCount == Cardinality(DOMAIN connections)

\* getSessionClientCount(sessionId): connections.get(sessionId)?.size || 0
GetSessionClientCount(s) == IF s \in DOMAIN connections THEN Cardinality(connections[s]) ELSE 0

\* eventSource.close()
CloseEs(k) == [es EXCEPT ![k].readyState = "closed"]

\* connectToN8nStream body: new EventSource(url); n8nConnections.set(sessionId, eventSource)
OpenLink(s) ==
    /\ nextConn' = nextConn + 1
    /\ es' = [es EXCEPT ![nextConn + 1] = [sid |-> s, readyState |-> "connecting"]]
    /\ n8nConnections' = MapSet(n8nConnections, s, nextConn + 1)

\* stopN8nStream that forgets every session's link
StopN8nStreamOnDroppingAll(l, s) ==
    [map |-> EmptyMap,
     es |-> IF s \in DOMAIN l.map THEN [l.es EXCEPT ![l.map[s]].readyState = "closed"] ELSE l.es]

\* stopN8nStream that forgets the link without closing it
StopN8nStreamOnWithoutClose(l, s) ==
    IF s \in DOMAIN l.map THEN [map |-> MapDelete(l.map, s), es |-> l.es] ELSE l

\* stopN8nStream(sessionId) as a function of the link state l = [map: the
\* n8nConnections map, es: the EventSource objects]
StopN8nStreamOn(l, s) ==
    IF s \in DOMAIN l.map
    THEN [map |-> MapDelete(l.map, s),
          es |-> [l.es EXCEPT ![l.map[s]].readyState = "closed"]]
    ELSE l

\* what stopN8nStream returns: the EventSource is tested before it is used,
\* close() and Map.delete do not throw
StopN8nStreamResult(s) == "ok"

\* the link state of the manager
Links == [map |-> n8nConnections, es |-> es]

\* stopN8nStream body
CloseLink(s) ==
    /\ es' = StopN8nStreamOn(Links, s).es
    /\ n8nConnections' = StopN8nStreamOn(Links, s).map
    /\ UNCHANGED nextConn


\* ------------------------------------------------------------------- Init
Init ==
    /\ status = [s \in Sess |-> "None"]
    /\ completedAt = [s \in Sess |-> FALSE]
    /\ statusWrites = [s \in Sess |-> <<>>]
    /\ logEntries = [s \in Sess |-> <<>>]
    /\ agentStatus = "Idle"
    /\ agentLastRun = FALSE
    /\ connections = EmptyMap
    /\ n8nConnections = EmptyMap
    /\ es = [k \in Conn |-> [sid |-> 0, readyState |-> "none"]]
    /\ nextConn = 0
    /\ nextSession = 0
    /\ emitted = 0
    /\ chan = [c \in Chan |-> [state |-> "fresh", sid |-> 0, timer |-> FALSE, attached |-> FALSE]]
    /\ received = [c \in Chan |-> <<>>]
    /\ broken = {}
    /\ stops = 0
    /\ triggerOutcome = "none"
    /\ heartbeats = 0
    /\ expected = [c \in Chan |-> <<>>]

\* the event ev was routed for session s: what every channel attached to s
\* (by the subscribe / unsubscribe / close calls made so far) is owed
Route(s, ev) ==
    /\ received' = Broadcast(s, ev)
    /\ expected' = [c \in Chan |->
                      IF chan[c].attached /\ chan[c].sid = s /\ c \notin broken
                      THEN Append(expected[c], ev) ELSE expected[c]]

NoRoute == UNCHANGED <<received, expected>>

\* ------------------------------------------------- WebhookService actions
\* getAgentById that does not look at the owner
GetAgentByIdAnyUser(agentId, userId) == agentId \in Agents

\* getAgentById(agentId, userId) returns a row:
\* SELECT ... FROM agents WHERE id = $1 AND user_id = $2
GetAgentById(agentId, userId) == agentId \in Agents /\ userId = AgentOwner

\* triggerWebhook that accepts any response of a successful POST
TriggerWebhookThrowsOnPostOnly(webhook) == webhook = "fail"

\* n8nService.triggerWebhook throws: the POST failed, or the response has no
\* string sseUrl
TriggerWebhookThrows(webhook) == webhook \in {"fail", "nourl"}

\* updateLastRun that lets the failure of its UPDATE escape
UpdateLastRunThrowsOnFailure(lastRunOk) == ~lastRunOk

\* agentService.updateLastRun throws: never, its catch block only logs
UpdateLastRunThrows(lastRunOk) == FALSE

\* what triggerAgent returns ("ok") or the message of the Error it throws
TriggerResult(agentId, userId, insertOk, webhook, ctorOk) ==
    IF ~GetAgentById(agentId, userId) THEN "Agent not found"
    ELSE IF ~insertOk THEN "Failed to create log session"
    ELSE IF TriggerWebhookThrows(webhook)
         THEN \* an axios error keeps its message, any other error
              \* (the missing sseUrl included) is replaced
              IF webhook = "fail" THEN "Failed to trigger n8n webhook: request failed"
              ELSE "Failed to trigger n8n webhook"
    ELSE IF ~ctorOk THEN "Failed to establish connection to workflow stream"
    ELSE "ok"

\* what stopAgentRun returns: its try block contains nothing that throws,
\* updateSessionStatus and createLogEntry swallow their own errors
StopAgentRunResult(s) == "ok"

\* what connectToN8nStream returns ("ok") or the message of the Error it throws
ConnectResult(s, ctorOk) ==
    IF ctorOk THEN "ok" ELSE "Failed to establish connection to workflow stream"

\* the number of POSTs n8nService.triggerWebhook has made: triggerAgent makes
\* one right after each log_sessions row it inserts, and nothing else does
WebhookCalls == nextSession

\* triggerAgent(agentId, userId).  insertOk: the INSERT returned a row;
\* webhook: the outcome of n8nService.triggerWebhook ("ok", "fail": the POST
\* failed, "nourl": the response has no string sseUrl); lastRunOk: the UPDATE
\* of updateLastRun succeeded; ctorOk: new EventSource(url) did not throw.
TriggerAgent(agentId, userId, insertOk, webhook, lastRunOk, ctorOk) ==
    /\ nextSession < MaxSessions
    /\ nextConn < MaxConns
    /\ UNCHANGED <<subVars, stops, emitted, completedAt, statusWrites>>
    /\ NoRoute
    /\ triggerOutcome' =
          (IF /\ GetAgentById(agentId, userId) /\ insertOk /\ ~TriggerWebhookThrows(webhook)
              /\ UpdateLastRunThrows(lastRunOk)
           THEN "Error updating last run"
           ELSE TriggerResult(agentId, userId, insertOk, webhook, ctorOk))
    /\ IF ~GetAgentById(agentId, userId)
       THEN \* getAgentById returned null: throw new Error('Agent not found')
            /\ UNCHANGED <<status, logEntries, agentVars, upVars, nextSession>>
       ELSE IF ~insertOk
       THEN \* querySingle returned null: throw new Error('Failed to create log session')
            /\ UNCHANGED <<status, logEntries, agentVars, upVars, nextSession>>
       ELSE LET sid == nextSession + 1 IN
            /\ nextSession' = sid
            /\ status' = [status EXCEPT ![sid] = "Running"]
            /\ IF TriggerWebhookThrows(webhook)
               THEN \* triggerWebhook threw; the catch block only logs and rethrows
                    /\ UNCHANGED <<logEntries, agentVars, upVars>>
               ELSE /\ agentStatus' = "Running"
                    /\ agentLastRun' = (agentLastRun \/ lastRunOk)
                    /\ IF UpdateLastRunThrows(lastRunOk) \/ ~ctorOk
                       THEN \* updateLastRun or connectToN8nStream threw
                            /\ UNCHANGED <<logEntries, upVars>>
                       ELSE /\ OpenLink(sid)
                            /\ logEntries' = [logEntries EXCEPT ![sid] =
                                   Append(@, [logType |-> "Info", message |-> "Webhook triggered successfully"])]

\* stopAgentRun(sessionId)
StopAgentRun(s) ==
    /\ stops < MaxStops
    /\ stops' = stops + 1
    /\ CloseLink(s)
    /\ UpdateSessionStatus(s, "Cancelled")
    /\ logEntries' = CreateLogEntry(logEntries, s, "Info", "Agent run cancelled by user")
    /\ NoRoute
    /\ UNCHANGED <<agentVars, subVars, nextSession, triggerOutcome, emitted>>

\* ----------------------------------------------------- SSEManager actions
\* connectToN8nStream(url, sessionId) called on its own
ConnectToN8nStream(s, ctorOk) ==
    /\ nextConn < MaxConns
    /\ IF ctorOk
       THEN /\ OpenLink(s)
       ELSE /\ UNCHANGED upVars
    /\ NoRoute
    /\ UNCHANGED <<dbVars, agentVars, subVars, stops, nextSession, triggerOutcome, emitted>>

\* stopN8nStream(sessionId) called on its own
StopN8nStream(s) ==
    /\ CloseLink(s)
    /\ NoRoute
    /\ UNCHANGED <<dbVars, agentVars, subVars, stops, nextSession, triggerOutcome, emitted>>

\* eventSource.onopen
OnOpen(k) ==
    /\ es[k].readyState = "connecting"
    /\ es' = [es EXCEPT ![k].readyState = "open"]
    /\ Route(es[k].sid, StreamOpenEvent)
    /\ UNCHANGED <<dbVars, agentVars, subVars, stops, nextSession, triggerOutcome, emitted,
                   n8nConnections, nextConn>>

\* eventSource.onmessage with event.data = raw
OnMessage(k, raw) ==
    LET s == es[k].sid
        n == emitted + 1
    IN
    /\ es[k].readyState = "open"
    /\ emitted < MaxEvents
    /\ emitted' = n
    /\ UNCHANGED <<dbVars, agentVars, subVars, stops, nextSession, triggerOutcome, nextConn>>
    /\ IF raw.kind = "garbage"
       THEN \* JSON.parse threw: the catch block
            /\ Route(s, ParseFailedEvent(raw, n))
            /\ UNCHANGED es
            /\ UNCHANGED n8nConnections
       ELSE IF raw.type = "control" /\ raw.message = "COMPLETE"
       THEN /\ Route(s, CompleteEvent)
            /\ es' = CloseEs(k)
            /\ n8nConnections' = MapDelete(n8nConnections, s)
       ELSE IF raw.type = "control" /\ raw.message = "ERROR"
       THEN /\ Route(s, WorkflowFailedEvent)
            /\ es' = CloseEs(k)
            /\ n8nConnections' = MapDelete(n8nConnections, s)
       ELSE IF raw.type \in LogType
       THEN /\ Route(s, ForwardedEvent(raw, n))
            /\ UNCHANGED es
            /\ UNCHANGED n8nConnections
       ELSE /\ NoRoute
            /\ UNCHANGED es
            /\ UNCHANGED n8nConnections

\* eventSource.onerror
OnError(k) ==
    /\ es[k].readyState \in {"connecting", "open"}
    /\ Route(es[k].sid, LostConnectionEvent)
    /\ es' = CloseEs(k)
    /\ n8nConnections' = MapDelete(n8nConnections, es[k].sid)
    /\ UNCHANGED <<dbVars, agentVars, subVars, stops, nextSession, triggerOutcome, emitted, nextConn>>

\* subscribe that announces the new client to the whole session
SubscribeAnnouncingToAll(s, c) ==
    /\ chan[c].state = "fresh"
    /\ connections' = MapSet(connections, s,
                             (IF s \in DOMAIN connections THEN connections[s] ELSE {}) \cup {c})
    /\ chan' = [chan EXCEPT ![c] = [state |-> "open", sid |-> s, timer |-> TRUE, attached |-> TRUE]]
    /\ received' = [d \in Chan |->
                      IF d = c \/ (s \in DOMAIN connections /\ d \in connections[s])
                      THEN Append(received[d], ConnectedEvent) ELSE received[d]]
    /\ UNCHANGED <<dbVars, agentVars, upVars, broken, heartbeats, stops, nextSession, triggerOutcome, emitted, expected>>

\* subscribe that replays the stream-connected marker to a late client
SubscribeWithReplay(s, c) ==
    /\ chan[c].state = "fresh"
    /\ connections' = MapSet(connections, s,
                             (IF s \in DOMAIN connections THEN connections[s] ELSE {}) \cup {c})
    /\ chan' = [chan EXCEPT ![c] = [state |-> "open", sid |-> s, timer |-> TRUE, attached |-> TRUE]]
    /\ received' = [received EXCEPT ![c] =
                      IF \E k \in Conn : es[k].sid = s /\ es[k].readyState = "open"
                      THEN <<ConnectedEvent, StreamOpenEvent>> ELSE <<ConnectedEvent>>]
    /\ UNCHANGED <<dbVars, agentVars, upVars, broken, heartbeats, stops, nextSession, triggerOutcome, emitted, expected>>

\* subscribe(sessionId, res) for a response object not used before
Subscribe(s, c) ==
    /\ chan[c].state = "fresh"
    /\ connections' = MapSet(connections, s,
                             (IF s \in DOMAIN connections THEN connections[s] ELSE {}) \cup {c})
    /\ chan' = [chan EXCEPT ![c] = [state |-> "open", sid |-> s, timer |-> TRUE, attached |-> TRUE]]
    /\ received' = [received EXCEPT ![c] = Append(@, ConnectedEvent)]
    /\ UNCHANGED <<dbVars, agentVars, upVars, broken, heartbeats, stops, nextSession, triggerOutcome, emitted, expected>>

\* streamLogs that looks the session up by id only
StreamLogsWithoutOwnerCheck(u, s, c) ==
    IF u \in Users /\ status[s] # "None"
    THEN Subscribe(s, c)
    ELSE /\ chan[c].state = "fresh"
         /\ chan' = [chan EXCEPT ![c].state = "closed"]
         /\ UNCHANGED <<dbVars, agentVars, upVars, connections, broken, heartbeats, stops,
                        nextSession, triggerOutcome, emitted, received, expected>>

\* LogController.streamLogs for user u (0: the request carries no user) on a
\* response object not used before.  Every log_sessions row was inserted by
\* triggerAgent with the user id of the agent's owner.
StreamLogs(u, s, c) ==
    IF u \in Users /\ status[s] # "None" /\ u = AgentOwner
    THEN Subscribe(s, c)
    ELSE \* res.status(401 or 404).json(...) ends the response
         /\ chan[c].state = "fresh"
         /\ chan' = [chan EXCEPT ![c].state = "closed"]
         /\ UNCHANGED <<dbVars, agentVars, upVars, connections, broken, heartbeats, stops,
                        nextSession, triggerOutcome, emitted, received, expected>>

\* unsubscribe(sessionId, res) called on its own
Unsubscribe(s, c) ==
    /\ connections' = UnsubscribeMap(s, c)
    /\ chan' = [chan EXCEPT ![c].attached = @ /\ ~(chan[c].sid = s)]
    /\ UNCHANGED <<dbVars, agentVars, upVars, broken, heartbeats, stops, nextSession, triggerOutcome, emitted,
                   received, expected>>

\* res.on('close'): clearInterval(heartbeatInterval); unsubscribe(sessionId, res)
ChannelClose(c) ==
    /\ chan[c].state = "open"
    /\ chan' = [chan EXCEPT ![c].state = "closed", ![c].timer = FALSE, ![c].attached = FALSE]
    /\ connections' = UnsubscribeMap(chan[c].sid, c)
    /\ UNCHANGED <<dbVars, agentVars, upVars, broken, heartbeats, stops, nextSession, triggerOutcome, emitted,
                   received, expected>>

\* one tick of the setInterval of subscribe
Heartbeat(c) ==
    /\ chan[c].timer
    /\ heartbeats < MaxHeartbeats
    /\ heartbeats' = heartbeats + 1
    /\ received' = SendEvent(received, c, HeartbeatEvent)
    /\ UNCHANGED <<dbVars, agentVars, upVars, connections, chan, broken, stops, nextSession, triggerOutcome, emitted,
                   expected>>

\* from now on res.write on this response throws
BreakChannel(c) ==
    /\ chan[c].state = "open"
    /\ c \notin broken
    /\ broken' = broken \cup {c}
    /\ UNCHANGED <<dbVars, agentVars, upVars, connections, chan, heartbeats, stops, nextSession, triggerOutcome, emitted,
                   received, expected>>

\* ------------------------------------------------------------------- Next
Next ==
    \/ \E a \in AgentIds, u \in Users, insertOk \in BOOLEAN,
          webhook \in {"ok", "fail", "nourl"}, lastRunOk \in BOOLEAN, ctorOk \in BOOLEAN :
          TriggerAgent(a, u, insertOk, webhook, lastRunOk, ctorOk)
    \/ \E s \in Sess : StopAgentRun(s)
    \/ \E s \in Sess, ctorOk \in BOOLEAN : ConnectToN8nStream(s, ctorOk)
    \/ \E s \in Sess : StopN8nStream(s)
    \/ \E k \in Conn : OnOpen(k)
    \/ \E k \in Conn, raw \in RawEvents : OnMessage(k, raw)
    \/ \E k \in Conn : OnError(k)
    \/ \E s \in Sess, c \in Chan : Subscribe(s, c)
    \/ \E u \in {0} \cup Users, s \in Sess, c \in Chan : StreamLogs(u, s, c)
    \/ \E s \in Sess, c \in Chan : Unsubscribe(s, c)
    \/ \E c \in Chan : ChannelClose(c)
    \/ \E c \in Chan : Heartbeat(c)
    \/ \E c \in Chan : BreakChannel(c)

Spec == Init /\ [][Next]_vars

\* The relay without browser subscribers: WebhookService and the upstream
\* links of SSEManager, every input.
NextLinks ==
    \/ \E a \in AgentIds, u \in Users, insertOk \in BOOLEAN,
          webhook \in {"ok", "fail", "nourl"}, lastRunOk \in BOOLEAN, ctorOk \in BOOLEAN :
          TriggerAgent(a, u, insertOk, webhook, lastRunOk, ctorOk)
    \/ \E s \in Sess : StopAgentRun(s)
    \/ \E s \in Sess, ctorOk \in BOOLEAN : ConnectToN8nStream(s, ctorOk)
    \/ \E s \in Sess : StopN8nStream(s)
    \/ \E k \in Conn : OnOpen(k)
    \/ \E k \in Conn, raw \in RawEvents : OnMessage(k, raw)
    \/ \E k \in Conn : OnError(k)

SpecLinks == Init /\ [][NextLinks]_vars

\* Triggered runs watched from the browser: sessions are created by
\* successful triggerAgent calls, channels attach through streamLogs and go
\* away by closing, the user may stop a run.
NextRun ==
    \/ \E lastRunOk \in BOOLEAN : TriggerAgent(1, AgentOwner, TRUE, "ok", lastRunOk, TRUE)
    \/ \E s \in Sess : StopAgentRun(s)
    \/ \E k \in Conn : OnOpen(k)
    \/ \E k \in Conn, raw \in RawEvents : OnMessage(k, raw)
    \/ \E k \in Conn : OnError(k)
    \/ \E u \in {0} \cup Users, s \in Sess, c \in Chan : StreamLogs(u, s, c)
    \/ \E c \in Chan : ChannelClose(c)

SpecRun == Init /\ [][NextRun]_vars

\* The fan-out of one session (session 1) of SSEManager: one upstream link
\* opened and stopped through the manager's own API, channels attaching,
\* detaching and closing in every order, and one upstream payload for each
\* path of onmessage (forwarded, terminal, ignored, undecodable).
FanoutEvents ==
    { Raw("json", "Info", "text"), Raw("json", "control", "COMPLETE"),
      Raw("json", "control", "PING"), Raw("garbage", "-", "raw") }

OpenFirstLink == nextConn = 0 /\ ConnectToN8nStream(1, TRUE)

NextFanout ==
    \/ OpenFirstLink
    \/ StopN8nStream(1)
    \/ \E k \in Conn : OnOpen(k)
    \/ \E k \in Conn, raw \in FanoutEvents : OnMessage(k, raw)
    \/ \E k \in Conn : OnError(k)
    \/ \E c \in Chan : Subscribe(1, c)
    \/ \E c \in Chan : Unsubscribe(1, c)
    \/ \E c \in Chan : ChannelClose(c)

SpecFanout == Init /\ [][NextFanout]_vars

\* The relay as the controllers wire it, without browser subscribers:
\* connectToN8nStream is called by triggerAgent only, every outcome of every
\* step of triggerAgent, and the callbacks of the links it opened.
NextTrigger ==
    \/ \E a \in AgentIds, u \in Users, insertOk \in BOOLEAN,
          webhook \in {"ok", "fail", "nourl"}, lastRunOk \in BOOLEAN, ctorOk \in BOOLEAN :
          TriggerAgent(a, u, insertOk, webhook, lastRunOk, ctorOk)
    \/ \E s \in Sess : StopAgentRun(s)
    \/ \E k \in Conn : OnOpen(k)
    \/ \E k \in Conn, raw \in RawEvents : OnMessage(k, raw)
    \/ \E k \in Conn : OnError(k)

SpecTrigger == Init /\ [][NextTrigger]_vars

\* One triggered run and its watchers: the first triggerAgent call succeeds,
\* its link delivers one payload for each path of onmessage, channels attach
\* to the run, detach and close.
WatchEvents == FanoutEvents \cup { Raw("json", "control", "ERROR") }

TriggerFirstRun == nextSession = 0 /\ TriggerAgent(1, AgentOwner, TRUE, "ok", FALSE, TRUE)

NextWatch ==
    \/ TriggerFirstRun
    \/ \E k \in Conn : OnOpen(k)
    \/ \E k \in Conn, raw \in WatchEvents : OnMessage(k, raw)
    \/ \E k \in Conn : OnError(k)
    \/ \E c \in Chan : Subscribe(1, c)
    \/ \E c \in Chan : Unsubscribe(1, c)
    \/ \E c \in Chan : ChannelClose(c)

SpecWatch == Init /\ [][NextWatch]_vars

\* The channels of one session with their keep-alive timers: channels attach
\* and close, each timer ticks, and the session's link delivers a log
\* message and the terminal message.
KeepAliveEvents == { Raw("json", "Info", "text"), Raw("json", "control", "COMPLETE") }

NextKeepAlive ==
    \/ OpenFirstLink
    \/ \E k \in Conn : OnOpen(k)
    \/ \E k \in Conn, raw \in KeepAliveEvents : OnMessage(k, raw)
    \/ \E k \in Conn : OnError(k)
    \/ \E c \in Chan : Subscribe(1, c)
    \/ \E c \in Chan : ChannelClose(c)
    \/ \E c \in Chan : Heartbeat(c)

SpecKeepAlive == Init /\ [][NextKeepAlive]_vars

\* The subscriber registry alone: subscribe and unsubscribe with every
\* session id and channel, channel close and timer ticks.
NextRegistry ==
    \/ \E s \in Sess, c \in Chan : Subscribe(s, c)
    \/ \E s \in Sess, c \in Chan : Unsubscribe(s, c)
    \/ \E c \in Chan : ChannelClose(c)
    \/ \E c \in Chan : Heartbeat(c)

SpecRegistry == Init /\ [][NextRegistry]_vars

\* One triggered run that is stopped: stopAgentRun and stopN8nStream at any
\* moment of the link's life, with channels attached to the run.
NextStop ==
    \/ TriggerFirstRun
    \/ StopAgentRun(1)
    \/ StopN8nStream(1)
    \/ \E k \in Conn : OnOpen(k)
    \/ \E k \in Conn, raw \in KeepAliveEvents : OnMessage(k, raw)
    \/ \E k \in Conn : OnError(k)
    \/ \E c \in Chan : Subscribe(1, c)
    \/ \E c \in Chan : ChannelClose(c)

SpecStop == Init /\ [][NextStop]_vars

\* One triggered run whose session id is used again: the run is stopped or
\* ends, and connectToN8nStream is called for the same session id, with
\* channels attached to the session.
NextReopen ==
    \/ TriggerFirstRun
    \/ StopAgentRun(1)
    \/ ConnectToN8nStream(1, TRUE)
    \/ \E k \in Conn : OnOpen(k)
    \/ \E k \in Conn, raw \in KeepAliveEvents : OnMessage(k, raw)
    \/ \E k \in Conn : OnError(k)
    \/ \E c \in Chan : Subscribe(1, c)
    \/ \E c \in Chan : ChannelClose(c)

SpecReopen == Init /\ [][NextReopen]_vars

\* One session whose channels may fail: channels attach and close, any open
\* channel may start to throw on write, and the session's link routes events.
NextBroken ==
    \/ OpenFirstLink
    \/ \E k \in Conn : OnOpen(k)
    \/ \E k \in Conn, raw \in KeepAliveEvents : OnMessage(k, raw)
    \/ \E k \in Conn : OnError(k)
    \/ \E c \in Chan : Subscribe(1, c)
    \/ \E c \in Chan : ChannelClose(c)
    \/ \E c \in Chan : BreakChannel(c)

SpecBroken == Init /\ [][NextBroken]_vars

\* Two sessions side by side in the manager: each session id gets one link,
\* links are stopped and deliver log messages, channels attach to and
\* detach from either session id.
IsolationPair == {1, 2}

OpenSessionLink(s) == (\A k \in Conn : es[k].sid # s) /\ ConnectToN8nStream(s, TRUE)

NextIsolation ==
    \/ \E s \in IsolationPair : OpenSessionLink(s)
    \/ \E s \in IsolationPair : StopN8nStream(s)
    \/ \E k \in Conn : OnOpen(k)
    \/ \E k \in Conn : OnMessage(k, Raw("json", "Info", "text"))
    \/ \E s \in IsolationPair, c \in Chan : Subscribe(s, c)
    \/ \E s \in IsolationPair, c \in Chan : Unsubscribe(s, c)

SpecIsolation == Init /\ [][NextIsolation]_vars

\* The subscription endpoint: requests with and without a user, for the
\* session of the triggered run and for unknown ids, and the run's link.
NextStream ==
    \/ TriggerFirstRun
    \/ \E u \in {0} \cup Users, s \in Sess, c \in Chan : StreamLogs(u, s, c)
    \/ \E c \in Chan : ChannelClose(c)
    \/ \E k \in Conn : OnOpen(k)
    \/ \E k \in Conn, raw \in KeepAliveEvents : OnMessage(k, raw)
    \/ \E k \in Conn : OnError(k)

SpecStream == Init /\ [][NextStream]_vars

\* ================================================================ claims
TerminalStatus == {"Completed", "Error", "Cancelled"}

\* the EventSource objects of session s that are not closed
LiveLinks(s) == {k \in Conn : es[k].sid = s /\ es[k].readyState \in {"connecting", "open"}}

\* the channels that the subscribe / unsubscribe / close calls made so far
\* leave attached to session s and that can be written
Attached(s) == {c \in Chan : chan[c].attached /\ chan[c].sid = s /\ c \notin broken}

\* a Control message, in either spelling, that ends the run
IsTerminalControl(raw) ==
    raw.kind = "json" /\ raw.type \in {"Control", "control"} /\ raw.message \in {"COMPLETE", "ERROR"}

\* the events of a channel other than its own connected / heartbeat signals
Visible(q) == SelectSeq(q, LAMBDA e : e.event \notin {"connected", "heartbeat"})

\* events that carry an upstream position appear in upstream order, once each
InUpstreamOrder(q) ==
    \A i, j \in 1..Len(q) : (i < j /\ q[i].seq > 0 /\ q[j].seq > 0) => q[i].seq < q[j].seq

CountIn(q, x) == Cardinality({i \in 1..Len(q) : q[i] = x})

CancelEntry == [logType |-> "Info", message |-> "Agent run cancelled by user"]

\* C1: in every reachable state each session id has at most one live
\* upstream connection (an EventSource opened for it and not yet closed).
C1_AtMostOneLiveLink == \A s \in Sess : Cardinality(LiveLinks(s)) <= 1

\* C2: connectToN8nStream for a session that already has a live link fails
\* with Conflict and leaves n8nConnections, the existing connection and the
\* number of connections as they were.
C2_SecondOpenRejected ==
    [][\A s \in Sess, ctorOk \in BOOLEAN :
          (s \in DOMAIN n8nConnections /\ ConnectToN8nStream(s, ctorOk))
          => (ConnectResult(s, ctorOk) = "Conflict" /\ UNCHANGED upVars)]_vars

\* C3: the step that handles a terminal cause of a session (a Control
\* COMPLETE / ERROR message, a transport error, stopAgentRun) leaves a
\* terminal status written in its record, and once the status is terminal no
\* further status write for that session happens.  (Handlers run to
\* completion and defer no work, so what the handling step has not written
\* the relay never writes.)
C3_TerminalStatusWrittenOnce ==
    [][\A s \in Sess :
          /\ ( /\ status[s] # "None"
               /\ \/ StopAgentRun(s)
                  \/ \E k \in Conn : es[k].sid = s /\ OnError(k)
                  \/ \E k \in Conn, raw \in RawEvents :
                        es[k].sid = s /\ IsTerminalControl(raw) /\ OnMessage(k, raw) )
             => status'[s] \in TerminalStatus
          /\ status[s] \in TerminalStatus => statusWrites'[s] = statusWrites[s]]_vars

\* C4: when a Running session's upstream delivers Control COMPLETE (spelled
\* the way onmessage recognises it), every attached subscriber (which saw
\* connected first and its log events in upstream order) gets exactly one
\* complete event, the record becomes Completed with a completion timestamp,
\* and the link is closed and removed.
C4_CompleteScenario ==
    [][\A k \in Conn, raw \in RawEvents :
          ( /\ es[k].sid \in Sess
            /\ status[es[k].sid] = "Running"
            /\ raw.kind = "json" /\ raw.type = "control" /\ raw.message = "COMPLETE"
            /\ OnMessage(k, raw) )
          => LET s == es[k].sid IN
             /\ \A c \in Attached(s) :
                   /\ received'[c] = Append(received[c], CompleteEvent)
                   /\ Head(received'[c]) = ConnectedEvent
                   /\ InUpstreamOrder(received'[c])
             /\ status'[s] = "Completed"
             /\ completedAt'[s]
             /\ es'[k].readyState = "closed"
             /\ s \notin DOMAIN n8nConnections']_vars

\* C5: when the upstream connection of a Running session fails, every
\* attached subscriber gets one log event of category Error about the lost
\* connection followed by a terminal error event, the link is closed and
\* removed and the status becomes Error; and whenever a session's status
\* becomes terminal each attached subscriber gets a terminal event.
C5_TransportErrorScenario ==
    [][/\ \A k \in Conn :
             (es[k].sid \in Sess /\ status[es[k].sid] = "Running" /\ OnError(k))
             => LET s == es[k].sid IN
                /\ \A c \in Attached(s) :
                      /\ Len(received'[c]) = Len(received[c]) + 2
                      /\ SubSeq(received'[c], 1, Len(received[c])) = received[c]
                      /\ received'[c][Len(received[c]) + 1] = LostConnectionEvent
                      /\ received'[c][Len(received[c]) + 2].event = "error"
                /\ es'[k].readyState = "closed"
                /\ s \notin DOMAIN n8nConnections'
                /\ status'[s] = "Error"
       /\ \A s \in Sess :
             (status[s] \notin TerminalStatus /\ status'[s] \in TerminalStatus)
             => \A c \in Attached(s) :
                   /\ Len(received'[c]) > Len(received[c])
                   /\ received'[c][Len(received'[c])].event \in {"complete", "error"}]_vars

\* C6: an upstream message whose category is Control as LogType spells it is
\* never delivered as a log event: with value COMPLETE or ERROR it closes the
\* link and subscribers get only the complete / error notification, with any
\* other value nothing is sent and link and session state stay as they were.
C6_ControlNeverForwarded ==
    [][\A k \in Conn, raw \in RawEvents :
          (raw.kind = "json" /\ raw.type = "Control" /\ OnMessage(k, raw))
          => /\ \A c \in Chan :
                   \/ received'[c] = received[c]
                   \/ /\ Len(received'[c]) = Len(received[c]) + 1
                      /\ received'[c][Len(received'[c])].event \in {"complete", "error"}
             /\ raw.message \in {"COMPLETE", "ERROR"}
                   => (es'[k].readyState = "closed" /\ es[k].sid \notin DOMAIN n8nConnections')
             /\ raw.message \notin {"COMPLETE", "ERROR"}
                   => UNCHANGED <<received, es, n8nConnections, status>>]_vars

\* C7: whatever the interleaving of subscribe, unsubscribe, close and
\* broadcasts on a session, every channel has been written exactly the events
\* routed for its session while it was attached, once each and in routing
\* order, and the events that came from upstream appear in upstream order.
C7_FanoutExactlyOnceInOrder ==
    \A c \in Chan :
        /\ Visible(received[c]) = expected[c]
        /\ InUpstreamOrder(received[c])

\* C7 happens: two channels of one session, one attached from the start and
\* one attached later and then detached, owed different events.
C7_Witness ==
    \E c1, c2 \in Chan :
        /\ c1 # c2
        /\ chan[c1].sid = chan[c2].sid /\ chan[c1].sid \in Sess
        /\ chan[c1].attached
        /\ chan[c2].state = "open" /\ ~chan[c2].attached
        /\ Len(expected[c1]) >= 3
        /\ Len(expected[c2]) >= 1
        /\ Len(expected[c2]) < Len(expected[c1])
        /\ \E i \in 1..Len(expected[c1]) : expected[c1][i].seq = 2

\* C8: however often stopAgentRun is called on a session, its record gets
\* one status write to Cancelled and one cancellation log entry.
C8_StopIdempotent ==
    \A s \in Sess :
        /\ CountIn(statusWrites[s], "Cancelled") <= 1
        /\ CountIn(logEntries[s], CancelEntry) <= 1

\* C9: stopAgentRun on a session with no active upstream link, or whose
\* status is already terminal, returns without error and writes no status,
\* appends no log entry and broadcasts nothing.
C9_StopWithoutLinkIsNoOp ==
    [][\A s \in Sess :
          ((s \notin DOMAIN n8nConnections \/ status[s] \in TerminalStatus) /\ StopAgentRun(s))
          => /\ StopAgentRunResult(s) = "ok"
             /\ UNCHANGED <<status, completedAt, statusWrites, logEntries, received>>]_vars

\* C10: stopAgentRun on a Running session with an attached subscriber closes
\* the link, sends the subscriber one log event of category Info announcing
\* the cancellation and sets the status to Cancelled; after that the
\* subscribers of the cancelled session get no log or terminal event.
C10_StopScenario ==
    [][\A s \in Sess :
          /\ ( /\ status[s] = "Running" /\ s \in DOMAIN n8nConnections /\ Attached(s) # {}
               /\ StopAgentRun(s) )
             => /\ es'[n8nConnections[s]].readyState = "closed"
                /\ s \notin DOMAIN n8nConnections'
                /\ status'[s] = "Cancelled"
                /\ \A c \in Attached(s) :
                      /\ Len(received'[c]) = Len(received[c]) + 1
                      /\ SubSeq(received'[c], 1, Len(received[c])) = received[c]
                      /\ received'[c][Len(received'[c])].event = "log"
                      /\ received'[c][Len(received'[c])].type = "Info"
          /\ status[s] = "Cancelled"
             => \A c \in Attached(s) : Visible(received'[c]) = Visible(received[c])]_vars

\* the log_entries row that persists the log event ev
EntryOf(ev) == [logType |-> ev.type, message |-> ev.message]

\* C11: a triggerAgent call that fails after it created the session record
\* (the webhook call fails, the response has no upstream address, or opening
\* the link fails) reports the error to its caller and leaves the record
\* marked Error; and when triggerAgent is over, no session is Running without
\* an upstream link ever having been opened for it.
C11_FailedTriggerMarksError ==
    [][\A a \in AgentIds, u \in Users, insertOk \in BOOLEAN,
          webhook \in {"ok", "fail", "nourl"}, lastRunOk \in BOOLEAN, ctorOk \in BOOLEAN :
          TriggerAgent(a, u, insertOk, webhook, lastRunOk, ctorOk)
          => /\ (nextSession' # nextSession /\ (webhook # "ok" \/ ~ctorOk))
                   => (triggerOutcome' \notin {"ok", "none"} /\ status'[nextSession'] = "Error")
             /\ \A s \in Sess :
                   status'[s] = "Running" => \E k \in Conn : es'[k].sid = s]_vars

\* C12: a triggerAgent call whose webhook response has no string sseUrl
\* reports an error to its caller and opens no link (no EventSource is
\* created, n8nConnections gets no entry for the new session); and no later
\* step opens one: a session that already has its record never gains an
\* EventSource or an n8nConnections entry.
C12_MissingUrlOpensNoLink ==
    [][/\ \A lastRunOk \in BOOLEAN, ctorOk \in BOOLEAN :
             TriggerAgent(1, AgentOwner, TRUE, "nourl", lastRunOk, ctorOk)
             => /\ triggerOutcome' \notin {"ok", "none"}
                /\ nextSession' = nextSession + 1
                /\ UNCHANGED upVars
                /\ nextSession' \notin DOMAIN n8nConnections'
                /\ \A k \in Conn : es'[k].sid # nextSession'
       /\ \A s \in Sess :
             status[s] # "None"
             => /\ s \in DOMAIN n8nConnections' => s \in DOMAIN n8nConnections
                /\ \A k \in Conn : es'[k].sid = s => es[k].sid = s]_vars

\* C12 happens: the latest call got the missing-address error, its session
\* has a record and no link, while another session's link is live.
C12_Witness ==
    /\ triggerOutcome = "Failed to trigger n8n webhook"
    /\ nextSession = 2
    /\ status[2] # "None"
    /\ 2 \notin DOMAIN n8nConnections
    /\ \A k \in Conn : es[k].sid # 2
    /\ 1 \in DOMAIN n8nConnections
    /\ emitted > 0

\* C13: triggerAgent for an agent that does not exist or belongs to another
\* user fails with the not-found error and has no side effect: no session
\* record, no webhook call, no upstream link, agent status and last-run
\* field as before.
C13_UnknownAgentNoSideEffect ==
    [][\A a \in AgentIds, u \in Users, insertOk \in BOOLEAN,
          webhook \in {"ok", "fail", "nourl"}, lastRunOk \in BOOLEAN, ctorOk \in BOOLEAN :
          ((a \notin Agents \/ u # AgentOwner) /\ TriggerAgent(a, u, insertOk, webhook, lastRunOk, ctorOk))
          => /\ triggerOutcome' = "Agent not found"
             /\ WebhookCalls' = WebhookCalls
             /\ UNCHANGED <<dbVars, agentVars, upVars, nextSession, subVars, received>>]_vars

\* C13 happens: the latest call was refused as not found after an earlier
\* call had started a run, whose record, link and agent fields are in place.
C13_Witness ==
    /\ triggerOutcome = "Agent not found"
    /\ nextSession = 1
    /\ status[1] = "Running"
    /\ 1 \in DOMAIN n8nConnections
    /\ agentStatus = "Running"

\* C14: every log event routed from the upstream of a session that has a
\* record (the stream-connected marker, a decoded Info / Success / Error
\* message, the decode-failure event, the connection-lost event) is appended
\* to the session's log entries by the step that routes it, subscribers or
\* not.
C14_RoutedEventsPersisted ==
    [][\A k \in Conn :
          (es[k].sid \in Sess /\ status[es[k].sid] # "None")
          => LET s == es[k].sid IN
             /\ OnOpen(k) => logEntries'[s] = Append(logEntries[s], EntryOf(StreamOpenEvent))
             /\ OnError(k) => logEntries'[s] = Append(logEntries[s], EntryOf(LostConnectionEvent))
             /\ \A raw \in RawEvents :
                   (OnMessage(k, raw) /\ (raw.kind = "garbage" \/ raw.type \in {"Info", "Success", "Error"}))
                   => /\ Len(logEntries'[s]) = Len(logEntries[s]) + 1
                      /\ logEntries'[s][Len(logEntries'[s])].logType
                            = (IF raw.kind = "garbage" THEN "Error" ELSE raw.type)]_vars

\* the last event written to a channel
LastOf(q) == q[Len(q)]

\* C15: an upstream payload that cannot be decoded is not fatal: each
\* attached subscriber of the session gets exactly one log event of category
\* Error that contains the raw payload and nobody else gets anything, the
\* link stays open and registered, the session's status stays as it was
\* (Running), so later upstream events are still handled.
C15_DecodeFailureNotFatal ==
    [][\A k \in Conn, raw \in RawEvents :
          (es[k].sid \in Sess /\ raw.kind = "garbage" /\ OnMessage(k, raw))
          => LET s == es[k].sid
                 ev == Ev("log", "Error", "Failed to parse event: raw", emitted + 1)
             IN
             /\ \A c \in Chan :
                   received'[c] = (IF c \in Attached(s) THEN Append(received[c], ev) ELSE received[c])
             /\ es'[k].readyState = "open"
             /\ s \in DOMAIN n8nConnections' /\ n8nConnections'[s] = k
             /\ status' = status
             /\ status[s] = "Running" => status'[s] = "Running"]_vars

\* C15 happens: a subscriber of the Running session got the decode-failure
\* event for the first upstream payload and then the event of the second.
C15_Witness ==
    \E c \in Chan :
        /\ status[1] = "Running"
        /\ 1 \in DOMAIN n8nConnections
        /\ Len(received[c]) >= 3
        /\ \E i, j \in 1..Len(received[c]) :
              /\ i < j
              /\ received[c][i] = Ev("log", "Error", "Failed to parse event: raw", 1)
              /\ received[c][j].event = "log" /\ received[c][j].type = "Info"
              /\ received[c][j].seq = 2

\* C16: subscribe writes the connected acknowledgement to the attaching
\* channel and to no other channel, and on every channel connected is the
\* first event and occurs once.
C16_ConnectedFirstOnceOwnChannel ==
    [][/\ \A s \in Sess, c \in Chan :
             Subscribe(s, c)
             => /\ received'[c] = Append(received[c], ConnectedEvent)
                /\ \A d \in Chan \ {c} : received'[d] = received[d]
       /\ \A c \in Chan :
             received'[c] # <<>>
             => /\ Head(received'[c]) = ConnectedEvent
                /\ CountIn(received'[c], ConnectedEvent) = 1]_vars

\* C16 happens: two channels of one session, the first already holding a
\* log event and a heartbeat when the second attached.
C16_Witness ==
    \E c1, c2 \in Chan :
        /\ c1 # c2
        /\ chan[c1].state = "open" /\ chan[c2].state = "open"
        /\ chan[c1].sid = chan[c2].sid
        /\ received[c2] = <<ConnectedEvent>>
        /\ Len(received[c1]) >= 3
        /\ \E i \in 1..Len(received[c1]) : received[c1][i].event = "log"
        /\ \E i \in 1..Len(received[c1]) : received[c1][i].event = "heartbeat"

\* C17: once a subscriber is detached, by unsubscribe or by the close of its
\* channel, its heartbeat timer is not active and no heartbeat is written to
\* its channel.
C17_DetachCancelsHeartbeat ==
    [][\A c \in Chan :
          /\ ~chan'[c].attached => ~chan'[c].timer
          /\ Heartbeat(c) => chan[c].attached]_vars

\* C18: unsubscribe for a channel that is not in the session's client set
\* (never attached, unknown session id, already detached) does not raise and
\* leaves the registry as it was.
C18_UnsubscribeUnknownIsNoOp ==
    \A s \in Sess, c \in Chan :
        (s \notin DOMAIN connections \/ c \notin connections[s])
        => /\ UnsubscribeResult(s, c) = "ok"
           /\ UnsubscribeMap(s, c) = connections

\* C18 happens: session 1 has a client, the other channel was attached to
\* session 1 and is detached already, and session 2 is not in the registry.
C18_Witness ==
    \E c1, c2 \in Chan :
        /\ c1 # c2
        /\ DOMAIN connections = {1}
        /\ connections[1] = {c1}
        /\ chan[c2].sid = 1 /\ chan[c2].state # "fresh" /\ ~chan[c2].attached

\* C19: delivery is live-only.  A step that routes an event for a session
\* without subscribers writes to no channel and leaves the registry alone; a
\* channel that attaches holds the connected acknowledgement and nothing
\* else; and whatever is written to a channel later is one event per step,
\* made by the relay in that step or decoded from the upstream message that
\* step handles, never an earlier one.
C19_LiveOnlyDelivery ==
    [][/\ \A k \in Conn :
             ( /\ es[k].sid \notin DOMAIN connections
               /\ OnOpen(k) \/ OnError(k) \/ \E raw \in RawEvents : OnMessage(k, raw) )
             => UNCHANGED <<received, connections, chan>>
       /\ \A s \in Sess, c \in Chan : Subscribe(s, c) => received'[c] = <<ConnectedEvent>>
       /\ \A c \in Chan :
             received'[c] # received[c]
             => /\ Len(received'[c]) = Len(received[c]) + 1
                /\ SubSeq(received'[c], 1, Len(received[c])) = received[c]
                /\ LastOf(received'[c]).seq \in {0, emitted + 1}
                /\ LastOf(received'[c]).seq > 0 => emitted' = emitted + 1]_vars

\* C19 happens: the first upstream message was forwarded to the one channel
\* attached then, the other channel attached afterwards and holds connected
\* and the second message only.
C19_Witness ==
    \E c1, c2 \in Chan :
        /\ c1 # c2
        /\ chan[c1].sid = chan[c2].sid
        /\ \E i \in 1..Len(received[c1]) : received[c1][i].seq = 1
        /\ Len(received[c2]) = 2
        /\ received[c2][1] = ConnectedEvent
        /\ received[c2][2].seq = 2

\* C20: the step that sends a terminal event (complete or error) for a
\* session closes the channel of each of its subscribers, cancels their
\* heartbeat timers and removes them from the registry, and a channel whose
\* last event is terminal is written no more.
C20_TerminalClosesChannels ==
    [][/\ \A k \in Conn, raw \in RawEvents :
             ( /\ es[k].sid \in Sess
               /\ raw.kind = "json" /\ raw.type = "control" /\ raw.message \in {"COMPLETE", "ERROR"}
               /\ OnMessage(k, raw) )
             => LET s == es[k].sid IN
                /\ s \notin DOMAIN connections'
                /\ \A c \in Attached(s) : chan'[c].state = "closed" /\ ~chan'[c].timer
       /\ \A c \in Chan :
             (received[c] # <<>> /\ LastOf(received[c]).event \in {"complete", "error"})
             => received'[c] = received[c]]_vars

\* C21: only the connection that n8nConnections holds for a session has its
\* events broadcast: once stopN8nStream, alone or inside stopAgentRun, has
\* removed a connection, no later onopen, onmessage or onerror of that
\* connection writes to a channel, and the step of the stop writes nothing.
C21_NoBroadcastAfterStop ==
    [][/\ \A k \in Conn :
             ( /\ es[k].sid \in Sess
               /\ es[k].sid \notin DOMAIN n8nConnections \/ n8nConnections[es[k].sid] # k )
             => \A c \in Chan :
                   chan[c].sid = es[k].sid => Visible(received'[c]) = Visible(received[c])
       /\ \A s \in Sess : (StopN8nStream(s) \/ StopAgentRun(s)) => received' = received]_vars

\* C21 happens: the run's connection was stopped while open and with
\* upstream messages still to come; the attached channel's last event is a
\* forwarded message, not a terminal or connection-lost event.
C21_Witness ==
    \E c \in Chan :
        /\ es[1].sid = 1 /\ es[1].readyState = "closed"
        /\ 1 \notin DOMAIN n8nConnections
        /\ emitted < MaxEvents
        /\ chan[c].attached /\ chan[c].sid = 1
        /\ Len(received[c]) >= 2
        /\ LastOf(received[c]).event = "log" /\ LastOf(received[c]).seq > 0

\* C22: an upstream event handled for a session whose status is terminal is
\* dropped (nothing is written to a channel, no log entry, no status write),
\* and a channel whose last log / terminal event is terminal gets no further
\* log or terminal event.
C22_TerminalSessionDropsEvents ==
    [][/\ \A k \in Conn :
             ( /\ es[k].sid \in Sess
               /\ status[es[k].sid] \in TerminalStatus
               /\ OnOpen(k) \/ OnError(k) \/ \E raw \in RawEvents : OnMessage(k, raw) )
             => UNCHANGED <<received, logEntries, status, statusWrites>>
       /\ \A c \in Chan :
             ( /\ Visible(received[c]) # <<>>
               /\ LastOf(Visible(received[c])).event \in {"complete", "error"} )
             => Visible(received'[c]) = Visible(received[c])]_vars

\* C23: no session with a terminal status has an entry in n8nConnections or
\* in connections.
C23_TerminalTearsDownBoth ==
    \A s \in Sess :
        status[s] \in TerminalStatus
        => (s \notin DOMAIN n8nConnections /\ s \notin DOMAIN connections)

\* C24: when a client of the session cannot be written, a routed event is
\* still appended, once and the same event, to every other client of the
\* session, nothing is written to the failing one, the registry is as before
\* and the handler finishes its work (the terminal message still closes the
\* link).
C24_WriteFailureIsolated ==
    [][\A k \in Conn, raw \in KeepAliveEvents :
          ( /\ es[k].sid \in DOMAIN connections
            /\ connections[es[k].sid] \cap broken # {}
            /\ OnOpen(k) \/ OnError(k) \/ OnMessage(k, raw) )
          => LET s == es[k].sid IN
             /\ \A c \in connections[s] \ broken :
                   /\ Len(received'[c]) = Len(received[c]) + 1
                   /\ SubSeq(received'[c], 1, Len(received[c])) = received[c]
                   /\ \A d \in connections[s] \ broken : LastOf(received'[d]) = LastOf(received'[c])
                   /\ LastOf(received'[c]).event \in {"log", "complete", "error"}
             /\ \A c \in broken : received'[c] = received[c]
             /\ connections' = connections
             /\ (OnError(k) \/ (OnMessage(k, raw) /\ raw.type = "control"))
                   => es'[k].readyState = "closed"]_vars

\* C24 happens: both channels got the first upstream message, then one of
\* them began to fail and the other still got the second message.
C24_Witness ==
    \E c1, c2 \in Chan :
        /\ c1 \in broken /\ c2 \notin broken
        /\ 1 \in DOMAIN connections /\ connections[1] = {c1, c2}
        /\ Len(received[c1]) >= 2 /\ LastOf(received[c1]).seq = 1
        /\ Len(received[c2]) >= 3 /\ LastOf(received[c2]).seq = 2

\* something of session b differs between the two states of a step: its
\* client set, its map entry, one of its connections, or what a channel of
\* the session has been written
TouchedIn(b) ==
    \/ (b \in DOMAIN connections') # (b \in DOMAIN connections)
    \/ b \in DOMAIN connections /\ b \in DOMAIN connections' /\ connections'[b] # connections[b]
    \/ (b \in DOMAIN n8nConnections') # (b \in DOMAIN n8nConnections)
    \/ b \in DOMAIN n8nConnections /\ b \in DOMAIN n8nConnections'
          /\ n8nConnections'[b] # n8nConnections[b]
    \/ \E k \in Conn : es[k].sid = b /\ es'[k] # es[k]
    \/ \E c \in Chan : chan[c].sid = b /\ received'[c] # received[c]

\* the step is an operation of the manager for session a
StepFor(a) ==
    \/ ConnectToN8nStream(a, TRUE)
    \/ StopN8nStream(a)
    \/ \E c \in Chan : Subscribe(a, c) \/ Unsubscribe(a, c)
    \/ \E k \in Conn :
          /\ es[k].sid = a
          /\ OnOpen(k) \/ OnError(k) \/ \E raw \in KeepAliveEvents : OnMessage(k, raw)

C30_StreamLogsOwnerOnly ==
    [][\A u \in {0} \cup Users, s \in Sess, c \in Chan :
          StreamLogs(u, s, c)
          => IF u \in Users /\ u = AgentOwner /\ status[s] # "None"
             THEN c \in connections'[s]
             ELSE /\ UNCHANGED <<connections, received>>
                  /\ ~chan'[c].attached /\ ~chan'[c].timer]_vars

\* C30 happens: one request was attached to the run's session and another
\* request was answered without being attached.
C30_Witness ==
    \E c1, c2 \in Chan :
        /\ status[1] = "Running"
        /\ 1 \in DOMAIN connections /\ connections[1] = {c1}
        /\ chan[c2].state = "closed" /\ received[c2] = <<>>

\* C25: stopN8nStream does not raise; for a session without an entry in
\* n8nConnections (never opened, or closed and removed before) it leaves the
\* map and every connection as they are, and running it a second time
\* changes nothing the first run left.
C25_StopN8nStreamIdempotent ==
    \A s \in Sess :
        LET once == StopN8nStreamOn(Links, s) IN
        /\ StopN8nStreamResult(s) = "ok"
        /\ StopN8nStreamOn(once, s) = once
        /\ s \notin DOMAIN n8nConnections => once = Links

\* C25 happens: the link of session 1 was closed and removed while session 2
\* has a live link in the map.
C25_Witness ==
    /\ \E k \in Conn : es[k].sid = 1 /\ es[k].readyState = "closed"
    /\ 1 \notin DOMAIN n8nConnections
    /\ 2 \in DOMAIN n8nConnections
    /\ es[n8nConnections[2]].readyState = "open"

\* C26: when the UPDATE of updateLastRun fails, triggerAgent still returns
\* to its caller: the session record is there with status Running, the link
\* is opened and registered, and last_run_at is as before.
C26_LastRunBestEffort ==
    [][TriggerAgent(1, AgentOwner, TRUE, "ok", FALSE, TRUE)
          => /\ triggerOutcome' = "ok"
             /\ nextSession' = nextSession + 1
             /\ status'[nextSession'] = "Running"
             /\ nextSession' \in DOMAIN n8nConnections'
             /\ es'[n8nConnections'[nextSession']] = [sid |-> nextSession', readyState |-> "connecting"]
             /\ agentLastRun' = agentLastRun]_vars

\* C26 happens: two runs were started and last_run_at was never written.
C26_Witness ==
    /\ triggerOutcome = "ok"
    /\ ~agentLastRun
    /\ nextSession = 2
    /\ status[2] = "Running"
    /\ 2 \in DOMAIN n8nConnections

\* C28: a connection is live (connecting or open) exactly when
\* n8nConnections maps its session id to it.
C28_MapTracksLiveLinks ==
    \A k \in Conn :
        (es[k].readyState \in {"connecting", "open"})
        <=> (es[k].sid \in DOMAIN n8nConnections /\ n8nConnections[es[k].sid] = k)

\* C29: the registry holds no empty client set; a session id is a key
\* exactly when a channel is attached to it, getSessionClientCount(s) is the
\* number of channels attached to s and getActiveSessionCount() the number
\* of sessions with an attached channel.
C29_RegistryCountsAttached ==
    /\ \A s \in DOMAIN connections : connections[s] # {}
    /\ \A s \in Sess :
          /\ (s \in DOMAIN connections) <=> (\E c \in Chan : chan[c].attached /\ chan[c].sid = s)
          /\ GetSessionClientCount(s) = Cardinality({c \in Chan : chan[c].attached /\ chan[c].sid = s})
    /\ GetActiveSessionCount
          = Cardinality({s \in Sess : \E c \in Chan : chan[c].attached /\ chan[c].sid = s})

\* C29 happens: one session has a client left, the other session's only
\* client was detached and its entry is gone.
C29_Witness ==
    \E c1, c2 \in Chan :
        /\ chan[c1].attached /\ chan[c1].sid = 1
        /\ chan[c2].state # "fresh" /\ ~chan[c2].attached /\ chan[c2].sid = 2
        /\ GetActiveSessionCount = 1
        /\ GetSessionClientCount(1) = 1 /\ GetSessionClientCount(2) = 0

====
